---- MODULE Spec2Model ----
(***************************************************************************)
(* Model of src/twitter_json_scraper.py: the scroll / extract / dedup loop *)
(* of scrape_tweets, with extract_tweet_data and clean_tweet_text as       *)
(* operators.  One crawl run is one behaviour.  The browser (the rendered  *)
(* page, the commands sent to it) is the environment: what it returns is   *)
(* chosen with \E, and each call to it may raise.                          *)
(***************************************************************************)
EXTENDS Integers, Sequences, FiniteSets, TLC

\* ------------------------------------------------------------------ bounds
\* Largest max_scrolls a run is started with.
MaxBudget == 7
\* Largest number of <article> fragments in one page snapshot.
MaxFrags == 2
\* Longest sequence of fragments fed to the deduplication loop on its own.
MaxFeed == 3
\* How often that sequence is fed.
Passes == 2
\* max_scrolls of the long crawl, which gets beyond its tenth cycle.
LongBudget == 11
\* Largest number of <div> elements in a statistics group.
MaxStats == 3
\* Largest scroll_pause_time and scroll_variation of the pause on its own, in
\* half seconds.
MaxPause == 6
MaxVariation == 6

\* ------------------------------------------------------- program constants
\* "if consecutive_no_new_tweets >= 5" (line 214)
IdleLimit == 5
\* "if scroll_count % 10 == 0" (line 167)
NudgeEvery == 10

\* The sentinel tweet_id of lines 91 and 93.
Unknown == "Unknown"
\* The sentinel text of line 100, as a one-token text.
NoTextFound == <<"No text found">>
\* A missing href: the <time> element, its grandparent or the attribute is absent
\* (None), or the attribute is empty; line 91 treats both alike.
NoHref == <<>>
\* A missing tweetText container (find returns None), unlike an empty text.
NoBody == <<"None">>
\* The sentinel url of line 121, as a one-segment address.
UnknownUrl == <<"Unknown">>
\* No <time> element in the article (find returns None).
NoTime == "None"
\* extract_tweet_data's "return None" (line 127).
ExtractionFailed == [failed |-> TRUE]
\* tweet_data before the for loop ran for the first time: not bound.
NoTweetData == [unbound |-> TRUE]
\* scrape_tweets has not returned.
NotReturned == [returned |-> FALSE]

\* ------------------------------------------------------------ the rendered page
\* Characters of a tweet body; " " and "\n" are whitespace.
Whitespace == {" ", "\n"}

\* href of the link around the <time> element, as its "/"-separated segments;
\* NoHref when the <time> element, its grandparent or the href is missing.
Hrefs == {NoHref, <<"u", "status", "1">>, <<"u", "status", "2">>}

\* Raw text of the tweetText container; NoBody when the container is missing.
Bodies == {NoBody, <<"a">>, <<"a", "\n", " ">>, <<"b">>}

\* The datetime attribute of the <time> element; NoTime without the element.
Datetimes == {NoTime, "t1", "t2"}

\* The text of one <div> of a statistics group, character by character.
StatTexts == {<<>>, <<"1", ".", "2", "K", " ", "r">>, <<"x", "4", "5", " ", "6">>, <<"7">>}

RECURSIVE SeqsUpTo(_, _)
SeqsUpTo(S, n) ==
    IF n = 0 THEN {<<>>}
    ELSE LET shorter == SeqsUpTo(S, n - 1)
         IN  shorter \cup {Append(s, x) : s \in {t \in shorter : Len(t) = n - 1}, x \in S}

\* A statistics group (role="group"): the texts of its <div> elements, in order.
StatGroups == SeqsUpTo(StatTexts, MaxStats)

\* A second group, which line 106 never looks at.
OtherGroup == <<<<"9">>, <<"9">>, <<"9">>>>

\* article.find_all('div', {'role': 'group'}): no group, one, or two.
StatLists == {<<>>} \cup {<<g>> : g \in StatGroups} \cup {<<g, OtherGroup>> : g \in StatGroups}

\* An article whose extraction raises inside extract_tweet_data (e.g. a <time>
\* element without a datetime attribute).
BrokenArticle ==
    [href |-> NoHref, datetime |-> NoTime, body |-> NoBody, stats |-> <<>>, broken |-> TRUE]

\* Every <article> extract_tweet_data is applied to on its own.  The link is
\* reached through the <time> element, so without it there is no href.
Articles ==
    {a \in [href : Hrefs, datetime : Datetimes, body : Bodies, stats : StatLists,
            broken : {FALSE}] : a.datetime = NoTime => a.href = NoHref}
        \cup {BrokenArticle}

\* An article without statistics.
Plain(h, b) ==
    [href |-> h, datetime |-> IF h = NoHref THEN NoTime ELSE "t1", body |-> b,
     stats |-> <<>>, broken |-> FALSE]

\* The articles fed to the deduplication check on its own.
PlainFragments == {Plain(h, b) : h \in Hrefs, b \in Bodies}

\* The articles of the crawled page without statistics: posts without a link,
\* post 1 with any body, and post 2.
CrawledFragments ==
    {Plain(h, b) : h \in {NoHref, <<"u", "status", "1">>}, b \in Bodies}
        \cup {Plain(<<"u", "status", "2">>, <<"b">>)}

\* Post 1 as the page shows it once it has replies, reposts and likes.
RescannedFragment ==
    [href |-> <<"u", "status", "1">>, datetime |-> "t2", body |-> <<"a">>,
     stats |-> <<<<<<"3">>, <<"1">>, <<"4">>>>>>, broken |-> FALSE]

\* One <article> of the crawled page.
Fragments == CrawledFragments \cup {RescannedFragment, BrokenArticle}

\* One <article> fed to the deduplication check on its own.
FedFragments == PlainFragments \cup {RescannedFragment, BrokenArticle}

\* Line 129: scroll_pause_time=2.5 and scroll_variation=1.0, in half seconds.
DefaultPause == 5
DefaultVariation == 2

\* random.uniform(-scroll_variation, scroll_variation), in half seconds.
Jitters(variation) == (0 - variation) .. variation

\* The accounts a run is started for.
Subjects == {"u", "v"}

\* Sequences of fragments handed to the deduplication loop twice over.
Feeds == SeqsUpTo(FedFragments, MaxFeed)

\* max_scrolls values a run is started with (the code does not validate it):
\* a negative one, zero, the small ones, the idle limit and the largest.
Budgets == ((0 - 1) .. 3) \cup {IdleLimit, MaxBudget}

\* ------------------------------------------------------------ clean_tweet_text
\* re.sub(r'\s+', ' ', text): every maximal run of whitespace becomes one " ".
RECURSIVE CollapseWhitespace(_)
CollapseWhitespace(t) ==
    IF t = <<>> THEN <<>>
    ELSE IF Head(t) \in Whitespace
         THEN IF Len(t) > 1 /\ t[2] \in Whitespace
              THEN CollapseWhitespace(Tail(t))
              ELSE <<" ">> \o CollapseWhitespace(Tail(t))
         ELSE <<Head(t)>> \o CollapseWhitespace(Tail(t))

\* str.strip(): leading and trailing whitespace removed.
RECURSIVE Strip(_)
Strip(t) ==
    IF t = <<>> THEN <<>>
    ELSE IF Head(t) \in Whitespace THEN Strip(Tail(t))
    ELSE IF t[Len(t)] \in Whitespace THEN Strip(SubSeq(t, 1, Len(t) - 1))
    ELSE t

clean_tweet_text(t) == Strip(CollapseWhitespace(t))

\* ---------------------------------------------------------- extract_tweet_data
\* tweet_link.split('/')[-1]
LastSegment(href) == href[Len(href)]

TweetIdOf(article) ==
    IF article.href = NoHref THEN Unknown ELSE LastSegment(article.href)

TweetTextOf(article) ==
    IF article.body = NoBody THEN NoTextFound ELSE clean_tweet_text(article.body)

\* Line 86.
TimestampOf(article) ==
    IF article.datetime = NoTime THEN Unknown ELSE article.datetime

\* The characters \d matches, in the order of their values.
DigitChars == <<"0", "1", "2", "3", "4", "5", "6", "7", "8", "9">>

IsDigit(c) == \E i \in 1 .. Len(DigitChars) : DigitChars[i] = c

DigitValue(c) == (CHOOSE i \in 1 .. Len(DigitChars) : DigitChars[i] = c) - 1

\* re.search(r'\d+', text): the leftmost digit, then as many digits as follow.
RECURSIVE DropNonDigits(_)
DropNonDigits(t) ==
    IF t = <<>> THEN <<>>
    ELSE IF IsDigit(Head(t)) THEN t
    ELSE DropNonDigits(Tail(t))

RECURSIVE TakeDigits(_)
TakeDigits(t) ==
    IF t = <<>> THEN <<>>
    ELSE IF IsDigit(Head(t)) THEN <<Head(t)>> \o TakeDigits(Tail(t))
    ELSE <<>>

\* The digits of the text, whatever separates them ("1.2K" read as 12).
RECURSIVE AllDigits(_)
AllDigits(t) ==
    IF t = <<>> THEN <<>>
    ELSE IF IsDigit(Head(t)) THEN <<Head(t)>> \o AllDigits(Tail(t))
    ELSE AllDigits(Tail(t))

FirstDigitRun(t) == TakeDigits(DropNonDigits(t))

\* int(stat_value.group())
RECURSIVE IntOf(_)
IntOf(digits) ==
    IF digits = <<>> THEN 0
    ELSE 10 * IntOf(SubSeq(digits, 1, Len(digits) - 1)) + DigitValue(digits[Len(digits)])

\* Line 111.
StatValue(stat_text) ==
    IF FirstDigitRun(stat_text) = <<>> THEN 0 ELSE IntOf(FirstDigitRun(stat_text))

\* Lines 103-111 and 118-120: the i-th counter (replies, retweets, likes), 0
\* when there is no group or the first group has no i-th <div>.
StatOf(article, i) ==
    IF article.stats # <<>> /\ i <= Len(article.stats[1])
    THEN StatValue(article.stats[1][i])
    ELSE 0

\* Line 121 without the conditional: the address is built for every id.
UrlOfAlways(tweet_id, username) ==
    <<"https://twitter.com", username, "status", tweet_id>>

\* Line 121.
UrlOf(tweet_id, username) ==
    IF tweet_id # Unknown
    THEN <<"https://twitter.com", username, "status", tweet_id>>
    ELSE UnknownUrl

\* The dictionary built at lines 114-122, or None when the try block raised.
extract_tweet_data(article, username) ==
    IF article.broken THEN ExtractionFailed
    ELSE [failed |-> FALSE,
          tweet_id |-> TweetIdOf(article),
          timestamp |-> TimestampOf(article),
          text |-> TweetTextOf(article),
          replies |-> StatOf(article, 1),
          retweets |-> StatOf(article, 2),
          likes |-> StatOf(article, 3),
          url |-> UrlOf(TweetIdOf(article), username)]

\* ------------------------------------------------------------------ state
VARIABLES
    pc,                         \* position in scrape_tweets
    max_scrolls,                \* the parameter
    tweets,                     \* list of accepted records
    unique_tweet_ids,           \* set of ids of accepted records
    unique_tweet_texts,         \* set of texts of accepted records
    scroll_count,
    consecutive_no_new_tweets,
    new_tweets_found,
    remaining,                  \* articles of the snapshot the for loop has yet to yield
    tweet_data,                 \* what extract_tweet_data returned for the last article
    result,                     \* what scrape_tweets returned; NotReturned before
    stop_reason,                \* which exit was taken
    fault,                      \* the call whose exception left scrape_tweets
    scrollCmds,                 \* number of scrollTo(bottom) commands the driver received
    nudgeCmds,                  \* number of scrollBy commands the driver received
    pageReads,                  \* number of times driver.page_source was read
    allProductive,              \* every completed cycle had new_tweets_found > 0
    lastProductive,             \* number (from 1) of the last such cycle, 0 if none
    subject,                    \* the parameter username
    scroll_pause_time,          \* the parameter, in half seconds
    scroll_variation,           \* the parameter, in half seconds
    feed,                       \* DedupSpec: the sequence of fragments fed
    passes,                     \* DedupSpec: how many times it has been started
    given                       \* ExtractSpec: the article extract_tweet_data is given

vars == <<pc, max_scrolls, tweets, unique_tweet_ids, unique_tweet_texts, scroll_count,
          consecutive_no_new_tweets, new_tweets_found, remaining, tweet_data, result,
          stop_reason, fault, scrollCmds, nudgeCmds, pageReads, allProductive, lastProductive,
          subject, scroll_pause_time, scroll_variation, feed, passes, given>>

index == <<tweets, unique_tweet_ids, unique_tweet_texts>>
counters == <<scroll_count, consecutive_no_new_tweets>>
driver == <<scrollCmds, nudgeCmds, pageReads>>
history == <<allProductive, lastProductive>>
ghosts == <<driver, history>>
pacing == <<scroll_pause_time, scroll_variation>>
harness == <<subject, pacing, feed, passes, given>>

\* The locals of scrape_tweets at lines 131-135, before anything ran.
Fresh ==
    /\ tweets = <<>>
    /\ unique_tweet_ids = {}
    /\ unique_tweet_texts = {}
    /\ scroll_count = 0
    /\ consecutive_no_new_tweets = 0
    /\ new_tweets_found = 0
    /\ remaining = 0
    /\ tweet_data = NoTweetData
    /\ result = NotReturned
    /\ stop_reason = "none"
    /\ fault = "none"
    /\ scrollCmds = 0
    /\ nudgeCmds = 0
    /\ pageReads = 0
    /\ allProductive = TRUE
    /\ lastProductive = 0

Init ==
    /\ pc = "wait"
    /\ max_scrolls \in Budgets
    /\ Fresh
    /\ subject = "u"
    /\ scroll_pause_time = DefaultPause
    /\ scroll_variation = DefaultVariation
    /\ feed = <<>>
    /\ passes = 0
    /\ given = BrokenArticle

\* ------------------------------------------------------------- small steps
\* An exception leaves scrape_tweets (no try block encloses lines 162-223, and
\* main's try has only a finally): nothing is returned and the frame's locals,
\* the accepted records among them, are gone.
Raise(step) ==
    /\ pc' = "raised"
    /\ fault' = step
    /\ tweets' = <<>>
    /\ unique_tweet_ids' = {}
    /\ unique_tweet_texts' = {}
    /\ scroll_count' = 0
    /\ consecutive_no_new_tweets' = 0
    /\ new_tweets_found' = 0
    /\ remaining' = 0
    /\ tweet_data' = NoTweetData
    /\ UNCHANGED <<max_scrolls, result, stop_reason, ghosts, harness>>

\* "return tweets" (lines 160 and 223).
Return(reason) ==
    /\ pc' = "done"
    /\ result' = [returned |-> TRUE, value |-> tweets]
    /\ stop_reason' = reason

\* Lines 158-160 without the return: the timeout is reported and the loop runs.
TimeoutIgnored ==
    /\ pc' = "loop"
    /\ stop_reason' = "timeout"
    /\ UNCHANGED <<max_scrolls, index, counters, new_tweets_found, remaining, tweet_data,
                   result, fault, ghosts, harness>>

\* Lines 158-160: the wait timed out; report it and return the (empty) list.
TimeoutExit ==
    /\ Return("timeout")
    /\ UNCHANGED <<max_scrolls, index, counters, new_tweets_found, remaining, tweet_data,
                   fault, ghosts, harness>>

\* The loop test with "<=" for "<": one cycle too many.
LoopGuardInclusive(count, budget) == count <= budget

\* while scroll_count < max_scrolls
LoopGuard(count, budget) == count < budget

\* Line 204: the argument of time.sleep, which raises ValueError when it is
\* negative.
PauseDuration(base, jitter) == base + jitter

\* Line 166 testing the count of the cycle that starts, not of those completed.
NudgeDueOnTenth(count) == (count + 1) % NudgeEvery = 0

\* if scroll_count % 10 == 0
NudgeDue(count) == count % NudgeEvery = 0

\* Line 186 alone: the fallback check on the text is missing.
IsDuplicateByIdOnly(data, ids, texts) ==
    data.tweet_id # Unknown /\ data.tweet_id \in ids

\* Line 190 alone: the primary check on the id is missing.
IsDuplicateByTextOnly(data, ids, texts) ==
    data.text \in texts

\* Lines 186 and 190: the record is a duplicate of an accepted one.
IsDuplicate(data, ids, texts) ==
    \/ data.tweet_id # Unknown /\ data.tweet_id \in ids
    \/ data.text \in texts

\* Lines 198-199 without the condition: the sentinel id is remembered too.
RecordIdAlways(data, ids) == ids \cup {data.tweet_id}

\* Lines 198-199.
RecordId(data, ids) ==
    IF data.tweet_id # Unknown THEN ids \cup {data.tweet_id} ELSE ids

\* Line 200 left out: the text of an accepted record is not remembered.
RecordTextForgotten(data, texts) == texts

\* Line 200.
RecordText(data, texts) == texts \cup {data.text}

\* Lines 208-211 without the else branch: the streak is never reset.
NextIdleNoReset(found, idle) == IF found = 0 THEN idle + 1 ELSE idle

\* Lines 208-211.
NextIdle(found, idle) == IF found = 0 THEN idle + 1 ELSE 0

\* Line 214 with ">" for ">=".
IdleStopStrict(idle) == idle > IdleLimit

\* Line 214.
IdleStop(idle) == idle >= IdleLimit

\* Lines 179-200 with "break" for the "continue" of line 183: a fragment that
\* fails to extract ends the scan of the snapshot.
EvaluateBreakOnFailure(article) ==
    /\ tweet_data' = extract_tweet_data(article, subject)
    /\ remaining' = IF tweet_data'.failed THEN 0 ELSE remaining - 1
    /\ IF tweet_data'.failed
       THEN UNCHANGED <<index, new_tweets_found>>
       ELSE IF IsDuplicate(tweet_data', unique_tweet_ids, unique_tweet_texts)
       THEN UNCHANGED <<index, new_tweets_found>>
       ELSE /\ tweets' = Append(tweets, tweet_data')
            /\ new_tweets_found' = new_tweets_found + 1
            /\ unique_tweet_ids' = RecordId(tweet_data', unique_tweet_ids)
            /\ unique_tweet_texts' = RecordText(tweet_data', unique_tweet_texts)

\* The accepted sequence with the record of the same known id overwritten.
Overwritten(records, data) ==
    [i \in 1 .. Len(records) |->
        IF records[i].tweet_id = data.tweet_id THEN data ELSE records[i]]

\* Lines 179-200 with an update for the "continue" of line 187: a fragment whose
\* id is already seen replaces the record accepted under that id.
EvaluateUpdateOnRescan(article) ==
    /\ remaining' = remaining - 1
    /\ tweet_data' = extract_tweet_data(article, subject)
    /\ IF tweet_data'.failed
       THEN UNCHANGED <<index, new_tweets_found>>
       ELSE IF tweet_data'.tweet_id \in unique_tweet_ids
       THEN /\ tweets' = Overwritten(tweets, tweet_data')
            /\ UNCHANGED <<unique_tweet_ids, unique_tweet_texts, new_tweets_found>>
       ELSE IF IsDuplicate(tweet_data', unique_tweet_ids, unique_tweet_texts)
       THEN UNCHANGED <<index, new_tweets_found>>
       ELSE /\ tweets' = Append(tweets, tweet_data')
            /\ new_tweets_found' = new_tweets_found + 1
            /\ unique_tweet_ids' = RecordId(tweet_data', unique_tweet_ids)
            /\ unique_tweet_texts' = RecordText(tweet_data', unique_tweet_texts)

\* Lines 179-200: the for loop yields one article and its body runs; "continue"
\* and the end of the body both go on to the next article.
Evaluate(article) ==
    /\ remaining' = remaining - 1
    /\ tweet_data' = extract_tweet_data(article, subject)
    /\ IF tweet_data'.failed
       THEN UNCHANGED <<index, new_tweets_found>>
       ELSE IF IsDuplicate(tweet_data', unique_tweet_ids, unique_tweet_texts)
       THEN UNCHANGED <<index, new_tweets_found>>
       ELSE /\ tweets' = Append(tweets, tweet_data')
            /\ new_tweets_found' = new_tweets_found + 1
            /\ unique_tweet_ids' = RecordId(tweet_data', unique_tweet_ids)
            /\ unique_tweet_texts' = RecordText(tweet_data', unique_tweet_texts)

\* ----------------------------------------------------------------- actions
\* Lines 154-162: the bounded wait for the first article, then the fixed pause.
WaitForTimeline ==
    /\ pc = "wait"
    /\ \E outcome \in {"present", "timeout", "error"} :
         \/ /\ outcome = "present"
            /\ pc' = "loop"
            /\ UNCHANGED <<result, stop_reason, fault>>
            /\ UNCHANGED <<max_scrolls, index, counters, new_tweets_found, remaining,
                           tweet_data, ghosts, harness>>
         \/ /\ outcome = "timeout"
            /\ TimeoutExit
         \/ /\ outcome = "error"
            /\ Raise("wait")

\* Lines 165-167 and 222-223: the loop test, then either the choice of the
\* first step of the cycle or the normal exit.
LoopTest ==
    /\ pc = "loop"
    /\ IF LoopGuard(scroll_count, max_scrolls)
       THEN /\ pc' = IF NudgeDue(scroll_count) THEN "nudge" ELSE "read"
            /\ UNCHANGED <<result, stop_reason>>
       ELSE Return("budget")
    /\ UNCHANGED <<max_scrolls, index, counters, new_tweets_found, remaining, tweet_data,
                   fault, ghosts, harness>>

\* Lines 168-169: random_scroll(driver) and the random pause.
Nudge ==
    /\ pc = "nudge"
    /\ \/ /\ pc' = "read"
          /\ nudgeCmds' = nudgeCmds + 1
          /\ UNCHANGED <<max_scrolls, index, counters, new_tweets_found, remaining,
                         tweet_data, result, stop_reason, fault, scrollCmds, pageReads,
                         history, harness>>
       \/ Raise("nudge")

\* Lines 172-177: read the page, find the articles, reset the cycle's counter.
\* The snapshot is a sequence of at most MaxFrags fragments; nothing reads an
\* article before the for loop yields it, so its content is drawn there.
ReadPage ==
    /\ pc = "read"
    /\ \/ \E n \in 0 .. MaxFrags :
            /\ remaining' = n
            /\ new_tweets_found' = 0
            /\ pc' = "scan"
            /\ pageReads' = pageReads + 1
            /\ UNCHANGED <<max_scrolls, index, counters, tweet_data, result, stop_reason,
                           fault, scrollCmds, nudgeCmds, history, harness>>
       \/ Raise("read")

\* Lines 179-200: one iteration of the for loop.
ScanArticle ==
    /\ pc = "scan"
    /\ remaining > 0
    /\ \E article \in Fragments : Evaluate(article)
    /\ UNCHANGED <<pc, max_scrolls, counters, result, stop_reason, fault, ghosts, harness>>

\* Line 203 moved into the for loop: the page is scrolled after the first
\* article, and the articles not yet scanned are dropped.
ScrollToBottomEarly ==
    /\ pc = "scan"
    /\ new_tweets_found > 0 \/ remaining = 0
    /\ \/ /\ pc' = "pause"
          /\ remaining' = 0
          /\ scrollCmds' = scrollCmds + 1
          /\ UNCHANGED <<max_scrolls, index, counters, new_tweets_found, tweet_data,
                         result, stop_reason, fault, nudgeCmds, pageReads, history,
                         harness>>
       \/ Raise("scroll")

\* Line 203: the for loop is over; scroll to the bottom of the page.
ScrollToBottom ==
    /\ pc = "scan"
    /\ remaining = 0
    /\ \/ /\ pc' = "pause"
          /\ scrollCmds' = scrollCmds + 1
          /\ UNCHANGED <<max_scrolls, index, counters, new_tweets_found, remaining,
                         tweet_data, result, stop_reason, fault, nudgeCmds, pageReads,
                         history, harness>>
       \/ Raise("scroll")

\* Line 204: the pacing pause.
Pause ==
    /\ pc = "pause"
    /\ \E jitter \in Jitters(scroll_variation) :
         IF PauseDuration(scroll_pause_time, jitter) < 0
         THEN Raise("pause")
         ELSE \/ /\ pc' = "count"
                 /\ UNCHANGED <<max_scrolls, index, counters, new_tweets_found,
                                remaining, tweet_data, result, stop_reason, fault,
                                ghosts, harness>>
              \/ Raise("pause")

\* Lines 205-216 with the budget tested before the idle limit.
CountCycleBudgetFirst ==
    /\ pc = "count"
    /\ scroll_count' = scroll_count + 1
    /\ consecutive_no_new_tweets' = NextIdle(new_tweets_found, consecutive_no_new_tweets)
    /\ allProductive' = (allProductive /\ new_tweets_found > 0)
    /\ lastProductive' = IF new_tweets_found > 0 THEN scroll_count + 1 ELSE lastProductive
    /\ IF ~LoopGuard(scroll_count', max_scrolls)
       THEN Return("budget")
       ELSE IF IdleStop(consecutive_no_new_tweets')
       THEN Return("idle")
       ELSE /\ pc' = "loop"
            /\ UNCHANGED <<result, stop_reason>>
    /\ UNCHANGED <<max_scrolls, index, new_tweets_found, remaining, tweet_data, fault,
                   driver, harness>>

\* Lines 205-216: count the cycle, update the idle streak, break when idle.
CountCycle ==
    /\ pc = "count"
    /\ scroll_count' = scroll_count + 1
    /\ consecutive_no_new_tweets' = NextIdle(new_tweets_found, consecutive_no_new_tweets)
    /\ allProductive' = (allProductive /\ new_tweets_found > 0)
    /\ lastProductive' = IF new_tweets_found > 0 THEN scroll_count + 1 ELSE lastProductive
    /\ IF IdleStop(consecutive_no_new_tweets')
       THEN Return("idle")
       ELSE /\ pc' = "loop"
            /\ UNCHANGED <<result, stop_reason>>
    /\ UNCHANGED <<max_scrolls, index, new_tweets_found, remaining, tweet_data, fault,
                   driver, harness>>

Next ==
    \/ WaitForTimeline
    \/ LoopTest
    \/ Nudge
    \/ ReadPage
    \/ ScanArticle
    \/ ScrollToBottom
    \/ Pause
    \/ CountCycle

Spec == Init /\ [][Next]_vars

\* scrape_tweets is one sequential control flow: as long as a step is possible
\* (the call it waits for returns or raises), the next step is taken.
FairSpec == Spec /\ WF_vars(Next)

\* The crawl with a budget of more than ten cycles.
LongInit ==
    /\ pc = "wait"
    /\ max_scrolls = LongBudget
    /\ Fresh
    /\ subject = "u"
    /\ scroll_pause_time = DefaultPause
    /\ scroll_variation = DefaultVariation
    /\ feed = <<>>
    /\ passes = 0
    /\ given = BrokenArticle

LongSpec == LongInit /\ [][Next]_vars

\* ------------------------------------------ the deduplication loop on its own
\* Lines 179-200 applied to a given sequence of fragments, Passes times over,
\* starting from the empty index of lines 131-133.
DedupInit ==
    /\ pc = "feed"
    /\ max_scrolls = 0
    /\ Fresh
    /\ subject = "u"
    /\ scroll_pause_time = DefaultPause
    /\ scroll_variation = DefaultVariation
    /\ feed \in Feeds
    /\ passes = 0
    /\ given = BrokenArticle

\* Line 177 before each pass over the sequence.
StartPass ==
    /\ pc = "feed"
    /\ remaining = 0
    /\ passes < Passes
    /\ passes' = passes + 1
    /\ remaining' = Len(feed)
    /\ new_tweets_found' = 0
    /\ UNCHANGED <<pc, max_scrolls, index, counters, tweet_data, result, stop_reason,
                   fault, ghosts, subject, pacing, feed, given>>

\* Lines 179-200 for the next fragment of the sequence.
FeedArticle ==
    /\ pc = "feed"
    /\ remaining > 0
    /\ Evaluate(feed[Len(feed) - remaining + 1])
    /\ UNCHANGED <<pc, max_scrolls, counters, result, stop_reason, fault, ghosts, harness>>

DedupNext == StartPass \/ FeedArticle

DedupSpec == DedupInit /\ [][DedupNext]_vars

\* ------------------------------------------------------- the pause on its own
\* Line 204 for any positive scroll_pause_time and any scroll_variation >= 0.
PauseInit ==
    /\ pc = "pause"
    /\ max_scrolls = 1
    /\ Fresh
    /\ subject = "u"
    /\ scroll_pause_time \in 1 .. MaxPause
    /\ scroll_variation \in 0 .. MaxVariation
    /\ feed = <<>>
    /\ passes = 0
    /\ given = BrokenArticle

PauseNext == Pause

PauseSpec == PauseInit /\ [][PauseNext]_vars

\* -------------------------------------------------- extract_tweet_data on its own
\* Lines 81-127 applied to one article of any shape, for either account.
ExtractInit ==
    /\ pc = "extract"
    /\ max_scrolls = 0
    /\ Fresh
    /\ subject \in Subjects
    /\ scroll_pause_time = DefaultPause
    /\ scroll_variation = DefaultVariation
    /\ feed = <<>>
    /\ passes = 0
    /\ given \in Articles

\* Line 180.
Extract ==
    /\ pc = "extract"
    /\ tweet_data' = extract_tweet_data(given, subject)
    /\ pc' = "extracted"
    /\ UNCHANGED <<max_scrolls, index, counters, new_tweets_found, remaining, result,
                   stop_reason, fault, ghosts, harness>>

ExtractNext == Extract

ExtractSpec == ExtractInit /\ [][ExtractNext]_vars

\* ================================================================== claims
\* The run returned after the initial wait had succeeded.
Stopped == pc = "done" /\ stop_reason # "timeout"

\* max(n, 0)
AtLeastZero(n) == IF n > 0 THEN n ELSE 0

\* ---- C1
\* C1 (termination by budget): a run started with max_scrolls >= 1 whose
\* initial wait succeeded and whose every cycle accepted at least one record
\* stops with scroll_count = max_scrolls, after exactly max_scrolls
\* scroll-to-bottom commands.
C1_TerminationByBudget ==
    (Stopped /\ max_scrolls >= 1 /\ allProductive)
        => (scroll_count = max_scrolls /\ scrollCmds = max_scrolls)

\* The spec's case: three cycles, each with a new record, then the budget stop.
C1_Witness ==
    /\ Stopped
    /\ max_scrolls = 3
    /\ allProductive
    /\ scroll_count = 3
    /\ scrollCmds = 3
    /\ Len(tweets) >= 3

\* ---- C2
\* C2 (termination by idleness): when cycle k was the last to accept a record
\* (k = 0: none did) and max_scrolls >= k + 5, the run stops at cycle k + 5
\* exactly, with an idle streak of 5.
C2_TerminationByIdleness ==
    (Stopped /\ max_scrolls >= lastProductive + IdleLimit)
        => /\ scroll_count = lastProductive + IdleLimit
           /\ consecutive_no_new_tweets = IdleLimit

\* The spec's case: the last new record in cycle 2, the stop at cycle 7.
C2_Witness ==
    /\ Stopped
    /\ lastProductive = 2
    /\ scroll_count = 7
    /\ consecutive_no_new_tweets = 5
    /\ stop_reason = "idle"

\* ---- C3
\* The records of the posts of the fed sequence (the fragments that extract).
Posts == {extract_tweet_data(feed[i], subject) : i \in {j \in 1 .. Len(feed) : ~feed[j].broken}}

\* How often record d occurs in the accepted sequence.
Count(d) == Cardinality({i \in 1 .. Len(tweets) : tweets[i] = d})

\* Record r stands in the way of candidate d: same text, or same known id.
Shares(r, d) == r.text = d.text \/ (d.tweet_id # Unknown /\ r.tweet_id = d.tweet_id)

\* The sequence has been fed at least twice, the last pass to its end.
FedTwice == pc = "feed" /\ passes >= 2 /\ remaining = 0

\* C3 as stated (idempotent dedup): after a sequence of fragments was fed
\* twice, each of its posts is in the accepted sequence exactly once, and the
\* second pass accepted nothing.
C3_ExactlyOnce ==
    FedTwice => /\ new_tweets_found = 0
                /\ \A d \in Posts : Count(d) = 1

\* C3 as amended: the second pass accepts nothing and no post is accepted
\* twice; a post is accepted exactly once unless another accepted record has
\* its text or its known id, and then it is not accepted at all.
C3_AtMostOnce ==
    /\ (pc = "feed" /\ passes >= 2) => new_tweets_found = 0
    /\ FedTwice =>
          \A d \in Posts :
              \/ Count(d) = 1
              \/ /\ Count(d) = 0
                 /\ \E i \in 1 .. Len(tweets) : tweets[i] # d /\ Shares(tweets[i], d)

\* Three posts fed twice, one of them dropped for a text another post has.
C3_Witness ==
    /\ FedTwice
    /\ Len(feed) = 3
    /\ Cardinality(Posts) = 3
    /\ Len(tweets) = 2
    /\ \E d \in Posts : Count(d) = 0

\* ---- C4
\* C4 (acceptance rule): whatever the index holds, a candidate that was
\* extracted is accepted (appended, counted, recorded) exactly when neither
\* its id is a known id already in unique_tweet_ids nor its text is in
\* unique_tweet_texts; a rejected candidate leaves the index as it was.
C4_AcceptanceRule ==
    [][(pc = "scan" /\ remaining > 0 /\ ~tweet_data'.failed) =>
          LET d == tweet_data'
              acceptable ==
                  /\ ~(d.tweet_id # Unknown /\ d.tweet_id \in unique_tweet_ids)
                  /\ d.text \notin unique_tweet_texts
          IN  IF acceptable
              THEN /\ tweets' = Append(tweets, d)
                   /\ new_tweets_found' = new_tweets_found + 1
                   /\ d.text \in unique_tweet_texts'
              ELSE UNCHANGED <<tweets, unique_tweet_ids, unique_tweet_texts,
                               new_tweets_found>>]_vars

\* A candidate with a new text was rejected for its id alone.
C4_Witness ==
    /\ pc = "scan"
    /\ tweet_data # NoTweetData
    /\ ~tweet_data.failed
    /\ tweet_data.tweet_id # Unknown
    /\ tweet_data.tweet_id \in unique_tweet_ids
    /\ tweet_data.text \notin unique_tweet_texts
    /\ new_tweets_found = 0

\* ---- C5
\* Both fragments of a two-fragment sequence extract, with unresolvable ids.
TwoUnknownIds ==
    /\ Len(feed) = 2
    /\ \A i \in 1 .. 2 : ~feed[i].broken /\ TweetIdOf(feed[i]) = Unknown

\* C5 (unknown-id fallback): from the empty index, two fragments with
\* unresolvable ids are both accepted when their cleaned texts differ and only
\* the first when they are the same; and whatever the index holds, a record
\* with unknown id is accepted exactly when its text is not in
\* unique_tweet_texts, and never changes unique_tweet_ids.
C5_UnknownIdFallback ==
    /\ []((pc = "feed" /\ passes = 1 /\ remaining = 0 /\ TwoUnknownIds) =>
            IF TweetTextOf(feed[1]) = TweetTextOf(feed[2])
            THEN tweets = <<extract_tweet_data(feed[1], subject)>>
            ELSE tweets = <<extract_tweet_data(feed[1], subject), extract_tweet_data(feed[2], subject)>>)
    /\ [][(pc = "feed" /\ remaining > 0 /\ ~tweet_data'.failed
              /\ tweet_data'.tweet_id = Unknown) =>
            /\ unique_tweet_ids' = unique_tweet_ids
            /\ IF tweet_data'.text \notin unique_tweet_texts
               THEN tweets' = Append(tweets, tweet_data')
               ELSE tweets' = tweets]_vars

\* Two fragments without id whose raw texts differ and whose cleaned texts
\* are the same: the second was dropped.
C5_Witness ==
    /\ pc = "feed"
    /\ passes = 1
    /\ remaining = 0
    /\ TwoUnknownIds
    /\ feed[1].body # feed[2].body
    /\ TweetTextOf(feed[1]) = TweetTextOf(feed[2])
    /\ Len(tweets) = 1

\* ---- C6
\* The calls made inside the while loop that can raise: random_scroll and its
\* pause, driver.page_source, the scroll command, the pacing pause.
LoopCalls == {"nudge", "read", "scroll", "pause"}

\* C6 as stated (no exception escapes the loop): no run is left by an
\* exception of a call made inside the scroll loop.
C6_NoLoopExceptionEscapes == ~(pc = "raised" /\ fault \in LoopCalls)

\* ---- C7
\* C7 (a fragment that fails to extract is skipped): the failing fragment
\* leaves the accepted list, both sets and new_tweets_found as they were and
\* the for loop goes on to the next fragment of the same snapshot; the scroll
\* step comes only when no fragment of the snapshot is left, and then it comes.
C7_ExtractionFailureSkipped ==
    /\ [][(pc = "scan" /\ remaining > 0 /\ tweet_data'.failed) =>
              /\ UNCHANGED <<tweets, unique_tweet_ids, unique_tweet_texts,
                             new_tweets_found>>
              /\ pc' = "scan"
              /\ remaining' = remaining - 1]_vars
    /\ [][(pc = "scan" /\ pc' = "pause") =>
              (remaining = 0 /\ scrollCmds' = scrollCmds + 1)]_vars
    /\ [][(pc = "scan" /\ remaining = 0) => pc' \in {"pause", "raised"}]_vars

\* A fragment failed to extract after records had been accepted, and a
\* fragment of the same snapshot is still to come.
C7_Witness ==
    /\ pc = "scan"
    /\ tweet_data = ExtractionFailed
    /\ remaining = 1
    /\ tweets # <<>>

\* ---- C8
\* C8 (initial-load timeout): a run whose initial wait timed out has returned
\* the empty list, without raising and without reading the page, nudging or
\* scrolling; scroll_count and the idle streak are 0.
C8_InitialLoadTimeout ==
    stop_reason = "timeout" =>
        /\ pc = "done"
        /\ fault = "none"
        /\ result = [returned |-> TRUE, value |-> <<>>]
        /\ pageReads = 0
        /\ nudgeCmds = 0
        /\ scrollCmds = 0
        /\ scroll_count = 0
        /\ consecutive_no_new_tweets = 0

\* The wait timed out and the run returned.
C8_Witness ==
    /\ stop_reason = "timeout"
    /\ pc = "done"
    /\ result.returned
    /\ max_scrolls > 0

\* ---- C9
\* C9 (every run stops): a run in which every call returns (none raises)
\* eventually returns, whatever the page yields and whatever max_scrolls is,
\* and has then completed at most max(max_scrolls, 0) cycles.
C9_EveryRunStops ==
    [](pc # "raised") => <>(pc = "done" /\ scroll_count <= AtLeastZero(max_scrolls))

\* The budget ended a run longer than the idle limit that kept finding records.
C9_Witness ==
    /\ pc = "done"
    /\ stop_reason = "budget"
    /\ scroll_count = max_scrolls
    /\ max_scrolls > IdleLimit
    /\ Len(tweets) = 3

\* ---- C10
\* C10 (no premature stop, no overrun): after a successful wait the run
\* returns only with scroll_count >= max_scrolls or an idle streak >= 5;
\* scroll_count never exceeds max(max_scrolls, 0) and the idle streak never
\* exceeds 5; and no cycle is under way when either stop condition holds.
C10_NoPrematureStopNoOverrun ==
    /\ Stopped =>
          (scroll_count >= max_scrolls \/ consecutive_no_new_tweets >= IdleLimit)
    /\ scroll_count <= AtLeastZero(max_scrolls)
    /\ consecutive_no_new_tweets <= IdleLimit
    /\ pc \in {"nudge", "read", "scan", "pause", "count"} =>
          (scroll_count < max_scrolls /\ consecutive_no_new_tweets < IdleLimit)

\* The idle streak ended a run that had budget left.
C10_Witness ==
    /\ Stopped
    /\ stop_reason = "idle"
    /\ scroll_count < max_scrolls
    /\ consecutive_no_new_tweets = IdleLimit
    /\ tweets # <<>>

\* ---------------------------------------------------------------------- C11
IsPrefix(s, t) == Len(s) <= Len(t) /\ SubSeq(t, 1, Len(s)) = s

\* The same post with other counts or another timestamp than the record has.
Rescan(old, new) ==
    /\ old.tweet_id = new.tweet_id
    /\ old.text = new.text
    /\ old # new

\* C11: while the crawl runs the accepted sequence only grows at its end, by at
\* most one record per fragment: the sequence before a step is a prefix of the
\* sequence after it, so no accepted record is removed, moved or modified, also
\* when the same post is scanned again with other counts or timestamp; and at
\* the normal return the returned sequence is the accepted sequence.
C11_AppendOnly ==
    /\ [][pc' # "raised" =>
            /\ IsPrefix(tweets, tweets')
            /\ Len(tweets') <= Len(tweets) + 1]_vars
    /\ [](pc = "done" => result = [returned |-> TRUE, value |-> tweets])

\* A fragment of an accepted post with other counts and timestamp was scanned,
\* and the crawl later returned.
C11_Witness ==
    /\ Stopped
    /\ tweet_data # NoTweetData
    /\ ~tweet_data.failed
    /\ \E i \in 1 .. Len(tweets) : Rescan(tweets[i], tweet_data)

\* ---------------------------------------------------------------------- C12
\* C12: whatever positive scroll_pause_time, whatever scroll_variation >= 0 and
\* whatever jitter is drawn in [-scroll_variation, scroll_variation], the
\* duration passed to the pause of line 204 is greater than zero.
C12_PauseIsPositive ==
    pc = "pause" =>
        \A jitter \in Jitters(scroll_variation) :
            PauseDuration(scroll_pause_time, jitter) > 0

\* ---------------------------------------------------------------------- C13
\* extract_tweet_data returned a record for the given article.
Extracted == pc = "extracted" /\ ~tweet_data.failed

\* C13: the url of an extracted record is the sentinel exactly when its id is
\* the sentinel; otherwise it is the address made of the account name the run
\* was started for and the id, and of nothing else of the article: every
\* article of the crawled page with the same id gets the same url.
C13_UrlFromSubjectAndId ==
    Extracted =>
        /\ tweet_data.url = UnknownUrl <=> tweet_data.tweet_id = Unknown
        /\ tweet_data.tweet_id # Unknown =>
              tweet_data.url = <<"https://twitter.com", subject, "status", tweet_data.tweet_id>>
        /\ \A other \in Fragments :
              (~other.broken /\ TweetIdOf(other) = tweet_data.tweet_id) =>
                  extract_tweet_data(other, subject).url = tweet_data.url

\* A post with a known id extracted for the account "v", whose link names "u",
\* and differing from the page's plain fragment of the same id.
C13_Witness ==
    /\ Extracted
    /\ subject = "v"
    /\ tweet_data.tweet_id = "1"
    /\ tweet_data.url = <<"https://twitter.com", "v", "status", "1">>
    /\ given.body = <<"b">>
    /\ given.datetime = "t2"
    /\ given.stats # <<>>

\* ---------------------------------------------------------------------- C14
\* The i-th counter of the record: replies, retweets (reposts), likes.
Counter(data, i) == IF i = 1 THEN data.replies ELSE IF i = 2 THEN data.retweets ELSE data.likes

\* text[p .. q] is the first maximal run of digits of the text.
IsFirstRun(text, p, q) ==
    /\ p <= q
    /\ \A k \in 1 .. (p - 1) : ~IsDigit(text[k])
    /\ \A k \in p .. q : IsDigit(text[k])
    /\ q < Len(text) => ~IsDigit(text[q + 1])

\* The counter the claim gives a statistic text.
ClaimedCount(text, n) ==
    IF \E k \in 1 .. Len(text) : IsDigit(text[k])
    THEN \E p, q \in 1 .. Len(text) :
            IsFirstRun(text, p, q) /\ n = IntOf(SubSeq(text, p, q))
    ELSE n = 0

\* C14: extraction of an article fails for no shape of its statistics; each
\* of the three counters is the integer of the first maximal run of digits in
\* the text of its <div> of the first statistics group, 0 when that text has
\* no digit, when the group has no such <div> and when there is no group; it
\* is never negative.
C14_CountersFromFirstDigitRun ==
    /\ (pc = "extracted" /\ ~given.broken) => ~tweet_data.failed
    /\ Extracted =>
          \A i \in 1 .. 3 :
              /\ Counter(tweet_data, i) >= 0
              /\ IF given.stats # <<>> /\ i <= Len(given.stats[1])
                 THEN ClaimedCount(given.stats[1][i], Counter(tweet_data, i))
                 ELSE Counter(tweet_data, i) = 0

\* "1.2K r" gives 1 reply, "x45 6" gives 45 reposts, and the group has no third
\* <div>, so there are 0 likes.
C14_Witness ==
    /\ Extracted
    /\ given.stats = <<<<<<"1", ".", "2", "K", " ", "r">>, <<"x", "4", "5", " ", "6">>>>>>
    /\ tweet_data.replies = 1
    /\ tweet_data.retweets = 45
    /\ tweet_data.likes = 0

\* ---------------------------------------------------------------------- C15
\* C15: the idle streak is the number of completed cycles since the last one
\* that accepted a record (all of them when none did).  The cycle's counter
\* new_tweets_found is set to 0 when the snapshot is read and grows by one with
\* every record appended to the accepted sequence, in no other way; the step
\* that completes a cycle sets the streak to 0 when the cycle accepted a
\* record and adds exactly 1 to it when the cycle accepted none, and no other
\* step changes it.
C15_IdleStreakCountsTrailingIdleCycles ==
    /\ [](pc # "raised" => consecutive_no_new_tweets = scroll_count - lastProductive)
    /\ [][pc' # "raised" =>
            /\ pc = "read" => new_tweets_found' = 0
            /\ pc # "read" =>
                  new_tweets_found' - new_tweets_found = Len(tweets') - Len(tweets)
            /\ scroll_count' = scroll_count + 1 =>
                  consecutive_no_new_tweets' =
                      IF new_tweets_found = 0 THEN consecutive_no_new_tweets + 1 ELSE 0
            /\ scroll_count' = scroll_count =>
                  consecutive_no_new_tweets' = consecutive_no_new_tweets]_vars

\* Two idle cycles, then the only record accepted in cycle 3 (the streak reset),
\* then two more idle cycles, the last one scanning nothing but a duplicate.
C15_Witness ==
    /\ pc = "loop"
    /\ scroll_count = 5
    /\ lastProductive = 3
    /\ Len(tweets) = 1
    /\ consecutive_no_new_tweets = 2
    /\ tweet_data = tweets[1]

\* ---------------------------------------------------------------------- C16
\* C16 as stated: a run that stops with the budget reached and the idle streak
\* at the limit stops for the budget.
C16_BudgetWinsTie ==
    (Stopped /\ scroll_count >= max_scrolls /\ consecutive_no_new_tweets >= IdleLimit)
        => stop_reason = "budget"

\* C16, amended: the idle limit is tested at the end of the cycle, before the
\* budget is tested again, so a run stops for idleness exactly when the streak
\* is at the limit, also when the budget is reached in the same cycle; it stops
\* for the budget exactly when the budget is reached with a shorter streak.
C16_IdleWinsTie ==
    Stopped =>
        /\ stop_reason = "idle" <=> consecutive_no_new_tweets >= IdleLimit
        /\ stop_reason = "budget" <=>
              (scroll_count >= max_scrolls /\ consecutive_no_new_tweets < IdleLimit)

\* The claim's example: max_scrolls = 5 and five idle cycles.
C16_Witness ==
    /\ Stopped
    /\ max_scrolls = IdleLimit
    /\ scroll_count = max_scrolls
    /\ consecutive_no_new_tweets = IdleLimit
    /\ stop_reason = "idle"

\* ---------------------------------------------------------------------- C19
\* The ids and the texts of the accepted records.
AcceptedIds == {tweets[i].tweet_id : i \in 1 .. Len(tweets)}
AcceptedTexts == {tweets[i].text : i \in 1 .. Len(tweets)}

\* C19: in every state the set of seen ids is the set of the known ids of the
\* accepted records and does not hold the sentinel, the set of seen texts is
\* the set of their texts, and no two accepted records have the same text or
\* the same known id; the states between two fragments of a snapshot included.
C19_IndexInvariant ==
    /\ unique_tweet_ids = AcceptedIds \ {Unknown}
    /\ Unknown \notin unique_tweet_ids
    /\ unique_tweet_texts = AcceptedTexts
    /\ \A i, j \in 1 .. Len(tweets) :
          i # j =>
              /\ tweets[i].text # tweets[j].text
              /\ tweets[i].tweet_id # Unknown => tweets[i].tweet_id # tweets[j].tweet_id

\* Between the two fragments of a snapshot, the first of which was accepted
\* with the sentinel id, next to an accepted record with a known id.
C19_Witness ==
    /\ pc = "scan"
    /\ remaining = 1
    /\ new_tweets_found = 1
    /\ Len(tweets) = 2
    /\ tweets[1].tweet_id # Unknown
    /\ tweets[2].tweet_id = Unknown
    /\ tweet_data = tweets[2]

\* ---------------------------------------------------------------------- C20
\* C20: reads and scroll-to-bottom commands alternate, the read first: the
\* page is read only when every read has had its scroll, it is scrolled only
\* when the snapshot read in this cycle is scanned to its end, and records are
\* accepted only between a read and its scroll; so no read follows the last
\* scroll, and at the normal return after the loop the reads, the scrolls and
\* the completed cycles are equally many.
C20_ReadBeforeScroll ==
    /\ [](pageReads = scrollCmds \/ pageReads = scrollCmds + 1)
    /\ [][/\ pageReads' # pageReads =>
               pageReads = scrollCmds /\ pageReads' = pageReads + 1
          /\ scrollCmds' # scrollCmds =>
               /\ pageReads = scrollCmds + 1
               /\ remaining = 0
               /\ scrollCmds' = scrollCmds + 1
          /\ (tweets' # tweets /\ pc' # "raised") => pageReads = scrollCmds + 1]_vars
    /\ [](Stopped => pageReads = scrollCmds /\ scrollCmds = scroll_count)

\* A run of three cycles that accepted records in the last one returned.
C20_Witness ==
    /\ Stopped
    /\ scroll_count = 3
    /\ pageReads = 3
    /\ scrollCmds = 3
    /\ lastProductive = 3

\* ---------------------------------------------------------------------- C17
\* C17: the nudge (random_scroll and its random pause) is performed only at the
\* start of a cycle whose scroll_count is divisible by 10, before that cycle's
\* read of the page, and once; from the read of a cycle on, the nudges are as
\* many as the cycles started so far whose scroll_count is divisible by 10, so
\* every such cycle has its nudge and no other cycle has one.
C17_NudgeCadence ==
    /\ [][nudgeCmds' # nudgeCmds =>
            /\ scroll_count % 10 = 0
            /\ pageReads = scroll_count
            /\ nudgeCmds' = nudgeCmds + 1]_vars
    /\ [](pc \in {"read", "scan", "pause", "count"} =>
            nudgeCmds = (scroll_count \div 10) + 1)
    /\ [][pageReads' # pageReads => nudgeCmds = (scroll_count \div 10) + 1]_vars

\* The 11th cycle: its nudge, the second of the run, is done and its page read;
\* the cycles 2 to 10 had none.
C17_Witness ==
    /\ pc = "scan"
    /\ scroll_count = 10
    /\ pageReads = 11
    /\ nudgeCmds = 2

\* ---------------------------------------------------------------------- C18
\* The pause of line 204 returns for this jitter (time.sleep takes the duration).
PauseReturns(jitter) == PauseDuration(scroll_pause_time, jitter) >= 0

\* C18: the random draws do not decide how a run goes on.  The nudge's draws
\* are used for nothing but the distance and the length of a pause; the only
\* other draw is the jitter of line 204, so two runs with the same parameters
\* and snapshots go on alike when, at every pause, the pause returns for either
\* run's jitter or for neither.
C18_PacingDoesNotAffectResult ==
    pc = "pause" =>
        \A first, second \in Jitters(scroll_variation) :
            PauseReturns(first) <=> PauseReturns(second)

====
